---------------------------- MODULE Spec2Model ----------------------------
(***************************************************************************)
(* sql-diff: the structure of two mysqldump files compared                 *)
(* (src/sql_diff.py), and the filter that drops the INSERT lines of named  *)
(* tables from a dump (src/sql_dump_extractor.py).                         *)
(*                                                                         *)
(* Text is modelled as text: a Python str is a TLA+ string, read one       *)
(* character at a time with SubSeq, and every regular expression of the    *)
(* source is an operator that matches as the expression matches.           *)
(*                                                                         *)
(* One character is written differently: a TLA+ string literal cannot hold *)
(* the backquote U+0060, so the backquote is written "~" (BQ) throughout,  *)
(* and "~" itself is no character of any modelled input.                   *)
(***************************************************************************)
EXTENDS Integers, Sequences, FiniteSets, TLC

(***************************************************************************)
(* Python str operations                                                   *)
(***************************************************************************)

\* the backquote character (see the note above)
BQ == "~"

\* what str.strip() strips and what \s matches (Python adds "\v", which no
\* TLA+ string can hold and no modelled input has)
Whitespace == {" ", "\t", "\n", "\r", "\f"}

\* the characters \w matches in the inputs modelled (ASCII)
WordChars == {"a","b","c","d","e","f","g","h","i","j","k","l","m","n","o","p","q","r","s","t","u","v","w","x","y","z",
              "A","B","C","D","E","F","G","H","I","J","K","L","M","N","O","P","Q","R","S","T","U","V","W","X","Y","Z",
              "0","1","2","3","4","5","6","7","8","9","_"}

\* the printable ASCII characters in code-point order, from " " (32); BQ stands at 96
Ascii == " !\"#$%&'()*+,-./0123456789:;<=>?@ABCDEFGHIJKLMNOPQRSTUVWXYZ[\\]^_~abcdefghijklmnopqrstuvwxyz{|}"

UpperCase == "ABCDEFGHIJKLMNOPQRSTUVWXYZ"
LowerCase == "abcdefghijklmnopqrstuvwxyz"

SetMin(S) == CHOOSE x \in S : \A y \in S : x <= y
SetMax(S) == CHOOSE x \in S : \A y \in S : x >= y

\* s[i-1] of Python: the i-th character, as a string of length 1
Char(s, i) == SubSeq(s, i, i)

\* s[i-1:], the text from position i on
From(s, i) == SubSeq(s, i, Len(s))

\* whether p stands in s at position i
MatchAt(s, i, p) == /\ i >= 1
                    /\ i + Len(p) - 1 <= Len(s)
                    /\ SubSeq(s, i, i + Len(p) - 1) = p

\* str.startswith / str.endswith
startswith(s, p) == MatchAt(s, 1, p)
endswith(s, p) == MatchAt(s, Len(s) - Len(p) + 1, p)

\* str.find from position i on: the first position of p, 0 when there is none
find(s, p, i) ==
    LET C == { j \in i..(Len(s) - Len(p) + 1) : MatchAt(s, j, p) }
    IN  IF C = {} THEN 0 ELSE SetMin(C)

\* p in s
contains(s, p) == find(s, p, 1) # 0

\* the first position >= i whose character is in cs (not in cs), Len(s)+1 when none
FirstIn(s, i, cs) ==
    LET C == { j \in i..Len(s) : Char(s, j) \in cs }
    IN  IF C = {} THEN Len(s) + 1 ELSE SetMin(C)
FirstNotIn(s, i, cs) ==
    LET C == { j \in i..Len(s) : Char(s, j) \notin cs }
    IN  IF C = {} THEN Len(s) + 1 ELSE SetMin(C)

\* str.strip(chars): leading and trailing characters of cs removed
strip_chars(s, cs) ==
    LET C == { j \in 1..Len(s) : Char(s, j) \notin cs }
    IN  IF C = {} THEN "" ELSE SubSeq(s, SetMin(C), SetMax(C))

\* str.strip()
strip(s) == strip_chars(s, Whitespace)

\* str.split(sep): the pieces between the occurrences of sep, left to right
RECURSIVE split(_, _)
split(s, sep) ==
    LET j == find(s, sep, 1)
    IN  IF j = 0 THEN <<s>>
        ELSE <<SubSeq(s, 1, j - 1)>> \o split(From(s, j + Len(sep)), sep)

\* str.split(None, 1): the first whitespace-delimited token and the rest
split_ws1(s) ==
    LET a == FirstNotIn(s, 1, Whitespace)
        b == FirstIn(s, a, Whitespace)
        c == FirstNotIn(s, b, Whitespace)
    IN  IF a > Len(s) THEN <<>>
        ELSE IF c > Len(s) THEN <<SubSeq(s, a, b - 1)>>
        ELSE <<SubSeq(s, a, b - 1), From(s, c)>>

\* str.lower() (ASCII)
RECURSIVE lower(_)
lower(s) ==
    IF s = "" THEN ""
    ELSE LET c == Char(s, 1)
             i == find(UpperCase, c, 1)
         IN  (IF i = 0 THEN c ELSE Char(LowerCase, i)) \o lower(Tail(s))

\* sep.join(parts)
RECURSIVE join(_, _)
join(sep, parts) ==
    IF parts = <<>> THEN ""
    ELSE IF Len(parts) = 1 THEN parts[1]
    ELSE parts[1] \o sep \o join(sep, Tail(parts))

\* the code point of an ASCII character (ord)
ord(c) ==
    IF c = "\t" THEN 9 ELSE IF c = "\n" THEN 10 ELSE IF c = "\f" THEN 12
    ELSE IF c = "\r" THEN 13 ELSE 31 + find(Ascii, c, 1)

\* s < t on str: the order sorted() uses, by code point
RECURSIVE str_less(_, _)
str_less(s, t) ==
    IF t = "" THEN FALSE
    ELSE IF s = "" THEN TRUE
    ELSE IF Char(s, 1) = Char(t, 1) THEN str_less(Tail(s), Tail(t))
    ELSE ord(Char(s, 1)) < ord(Char(t, 1))

\* a < b on tuples of str
RECURSIVE tuple_less(_, _)
tuple_less(a, b) ==
    IF b = <<>> THEN FALSE
    ELSE IF a = <<>> THEN TRUE
    ELSE IF a[1] = b[1] THEN tuple_less(Tail(a), Tail(b))
    ELSE str_less(a[1], b[1])

\* sorted(S) for a set of str
RECURSIVE sorted(_)
sorted(S) ==
    IF S = {} THEN <<>>
    ELSE LET m == CHOOSE x \in S : \A y \in S : x = y \/ str_less(x, y)
         IN  <<m>> \o sorted(S \ {m})


(***************************************************************************)
(* Regular expressions of the source.  A match is a record: ok, the groups *)
(* g, and end, the position after the match.  An expression is matched     *)
(* piece by piece, each piece an operator from the match so far to the     *)
(* match with the piece: where the source's expressions can backtrack, the *)
(* operator's comment says why the result is the same.                     *)
(***************************************************************************)

NoMatch == [ok |-> FALSE, g |-> <<>>, end |-> 0]

\* Optional[...]: None is <<>>, a value v is <<v>>
None == <<>>
Some(v) == <<v>>

\* the match of nothing, at position i
At(i) == [ok |-> TRUE, g |-> <<>>, end |-> i]

\* the literal text p
lit(s, m, p) ==
    IF m.ok /\ MatchAt(s, m.end, p) THEN [m EXCEPT !.end = m.end + Len(p)] ELSE NoMatch

\* the match m, ending at e instead, or no match when e is 0
ending(m, e) == IF e = 0 THEN NoMatch ELSE [m EXCEPT !.end = e]

\* the match m with the group s[m.end+1 .. j-1] and ending after j, when j leaves the
\* group a character at least
group_to(s, m, j) ==
    IF j > m.end + 1
    THEN [ok |-> TRUE, g |-> Append(m.g, SubSeq(s, m.end + 1, j - 1)), end |-> j + 1]
    ELSE NoMatch

\* \s+ : the whole run of whitespace (what follows it in every expression of the
\* source is no whitespace, so a shorter run never matches where the whole run fails)
ws_end(s, i) == IF i >= 1 /\ i <= Len(s) /\ Char(s, i) \in Whitespace
                THEN FirstNotIn(s, i, Whitespace) ELSE 0
ws1(s, m) == IF m.ok THEN ending(m, ws_end(s, m.end)) ELSE NoMatch

\* \s* : the whole run, for the same reason
ws0(s, m) == IF m.ok THEN ending(m, FirstNotIn(s, m.end, Whitespace)) ELSE NoMatch

\* ~([^~]+)~ , ~ the backquote: the group runs to the next backquote
quoted(s, m) ==
    IF m.ok /\ MatchAt(s, m.end, BQ) THEN group_to(s, m, find(s, BQ, m.end + 1)) ELSE NoMatch

\* \(([^)]+)\) : the group runs to the next ")"
parens(s, m) ==
    IF m.ok /\ MatchAt(s, m.end, "(") THEN group_to(s, m, find(s, ")", m.end + 1)) ELSE NoMatch

\* re.match(r"<keyword>\s+~([^~]+)~\s+\(([^)]+)\)", line): groups name, columns
keyword_name_cols(line, keyword) ==
    parens(line, ws1(line, quoted(line, ws1(line, lit(line, At(1), keyword)))))

\* re.match(r"~([^~]+)~\s+", line)
column_match(line) == ws1(line, quoted(line, At(1)))

\* (enum|set) at the start of s, in any case: the group as written
enum_keyword(s) ==
    IF Len(s) >= 4 /\ lower(SubSeq(s, 1, 4)) = "enum"
    THEN [ok |-> TRUE, g |-> <<SubSeq(s, 1, 4)>>, end |-> 5]
    ELSE IF Len(s) >= 3 /\ lower(SubSeq(s, 1, 3)) = "set"
    THEN [ok |-> TRUE, g |-> <<SubSeq(s, 1, 3)>>, end |-> 4]
    ELSE NoMatch

\* re.match(r"(enum|set)\s*\(([^)]+)\)", rest_of_line, re.IGNORECASE)
enum_match(rest_of_line) == parens(rest_of_line, ws0(rest_of_line, enum_keyword(rest_of_line)))

\* ([^,\s]+) : the group runs to the next comma or whitespace, a character at least
token(s, m) ==
    IF m.ok /\ m.end <= Len(s) /\ Char(s, m.end) \notin (Whitespace \cup {","})
    THEN [ok |-> TRUE,
          g |-> Append(m.g, SubSeq(s, m.end, FirstIn(s, m.end, Whitespace \cup {","}) - 1)),
          end |-> FirstIn(s, m.end, Whitespace \cup {","})]
    ELSE NoMatch

\* DEFAULT\s+([^,\s]+) at position j
default_at(attributes, j) == token(attributes, ws1(attributes, lit(attributes, At(j), "DEFAULT")))

\* the leftmost of the positions C at which Pattern matches, as re.search finds it
leftmost(C) == IF C = {} THEN 0 ELSE SetMin(C)

\* re.search(r"DEFAULT\s+([^,\s]+)", attributes)
default_match(attributes) ==
    default_at(attributes,
               leftmost({ j \in 1..Len(attributes) : default_at(attributes, j).ok }))

\* re.match(r"PRIMARY KEY\s+\(([^)]+)\)", line)
pk_match(line) == parens(line, ws1(line, lit(line, At(1), "PRIMARY KEY")))

\* re.match(r"UNIQUE KEY\s+~([^~]+)~\s+\(([^)]+)\)", line)
unique_match(line) == keyword_name_cols(line, "UNIQUE KEY")

\* re.match(r"KEY\s+~([^~]+)~\s+\(([^)]+)\)", line)
idx_match(line) == keyword_name_cols(line, "KEY")

\* \s+REFERENCES\s+~([^~]+)~\s+\(([^)]+)\) after the match m
references(line, m) ==
    parens(line, ws1(line, quoted(line, ws1(line, lit(line, ws1(line, m), "REFERENCES")))))

\* re.match(r"CONSTRAINT\s+~([^~]+)~\s+FOREIGN KEY\s+\(([^)]+)\)\s+REFERENCES\s+~([^~]+)~\s+\(([^)]+)\)", line)
fk_match(line) ==
    references(line,
        parens(line, ws1(line, lit(line,
            ws1(line, quoted(line, ws1(line, lit(line, At(1), "CONSTRAINT")))),
            "FOREIGN KEY"))))

\* <key>(\w+) at position j
word_at(s, j, key) ==
    IF MatchAt(s, j, key) /\ j + Len(key) <= Len(s) /\ Char(s, j + Len(key)) \in WordChars
    THEN Some(SubSeq(s, j + Len(key), FirstNotIn(s, j + Len(key), WordChars) - 1))
    ELSE None

\* re.search(<key>(\w+), table_options): the group of the leftmost match, or None
word_after(table_options, key) ==
    word_at(table_options,
            leftmost({ j \in 1..Len(table_options) : word_at(table_options, j, key) # None }),
            key)

\* re.search(r"DEFAULT CHARSET=(\w+)", table_options)
charset_match(table_options) == word_after(table_options, "DEFAULT CHARSET=")

\* re.search(r"COLLATE=(\w+)", table_options)
collation_match(table_options) == word_after(table_options, "COLLATE=")

\* ENGINE[\s\S]+?;(?=\n|$) at position e: the first ";" at the end of a line that
\* leaves ENGINE a character at least, 0 when ENGINE does not stand at e or no
\* such ";" follows
options_end(content, e) ==
    IF MatchAt(content, e, "ENGINE")
    THEN leftmost({ t \in (e + 7)..Len(content) :
                      /\ Char(content, t) = ";"
                      /\ (t = Len(content) \/ Char(content, t + 1) = "\n") })
    ELSE 0

\* \)\s*(ENGINE[\s\S]+?);(?=\n|$) at position k: whether it matches
closes_at(content, k) ==
    /\ Char(content, k) = ")"
    /\ options_end(content, FirstNotIn(content, k + 1, Whitespace)) # 0

\* the groups 2 and 3 and the end of the match whose body ends before position k
body_and_options(content, m, k) ==
    IF k = 0 THEN NoMatch
    ELSE [ok |-> TRUE,
          g |-> m.g \o <<SubSeq(content, m.end, k - 1),
                         SubSeq(content, FirstNotIn(content, k + 1, Whitespace),
                                options_end(content, FirstNotIn(content, k + 1, Whitespace)) - 1)>>,
          end |-> options_end(content, FirstNotIn(content, k + 1, Whitespace)) + 1]

\* ([\s\S]+?)\)\s*(ENGINE[\s\S]+?);(?=\n|$) after the match m: the body is the
\* shortest text, a character at least, that the rest of the expression can follow
table_body(content, m) ==
    IF m.ok
    THEN body_and_options(content, m,
             leftmost({ k \in (m.end + 1)..Len(content) : closes_at(content, k) }))
    ELSE NoMatch

\* create_table_pattern at position p of content:
\*   CREATE TABLE\s+~([^~]+)~\s+\(([\s\S]+?)\)\s*(ENGINE[\s\S]+?);(?=\n|$)
create_table_at(content, p) ==
    table_body(content,
        lit(content, ws1(content, quoted(content, ws1(content,
            lit(content, At(p), "CREATE TABLE")))), "("))

\* the matches from the match m on, m included, each found after the one before
RECURSIVE matches_from(_, _)

\* re.finditer(create_table_pattern, content): the matches from position i on, in order
finditer(content, i) ==
    matches_from(content,
        create_table_at(content,
            leftmost({ p \in i..Len(content) : create_table_at(content, p).ok })))

matches_from(content, m) ==
    IF m.ok THEN <<m>> \o finditer(content, m.end) ELSE <<>>

(***************************************************************************)
(* MySQLDumpParser: the data classes and the parsing of one table body     *)
(***************************************************************************)

\* Column(name, data_type, nullable, default, extra)
Column(name, data_type, nullable, default, extra) ==
    [name |-> name, data_type |-> data_type, nullable |-> nullable,
     default |-> default, extra |-> extra]

\* Constraint(name, constraint_type, columns, referenced_table, referenced_columns)
Constraint(name, constraint_type, cols, referenced_table, referenced_columns) ==
    [name |-> name, constraint_type |-> constraint_type, columns |-> cols,
     referenced_table |-> referenced_table, referenced_columns |-> referenced_columns]

\* Table(name, columns, constraints, charset, collation)
Table(name, cols, cons, cs, coll) ==
    [name |-> name, columns |-> cols, constraints |-> cons, charset |-> cs, collation |-> coll]

\* the prefixes that keep a line from being read as a column
KeyPrefixes == <<"PRIMARY KEY", "UNIQUE KEY", "KEY", "CONSTRAINT", "FOREIGN KEY">>

\* line.startswith((p1, p2, ...))
startswith_any(line, prefixes) == \E k \in 1..Len(prefixes) : startswith(line, prefixes[k])

\* a faulty is_line_complete: FOREIGN KEY is missing from the prefixes of the last test
is_line_complete_foreign(line) ==
    \/ /\ startswith(line, "CONSTRAINT")
       /\ contains(line, "REFERENCES")
       /\ contains(split(line, "REFERENCES")[2], ")")
    \/ /\ startswith_any(line, <<"PRIMARY KEY", "UNIQUE KEY", "KEY">>)
       /\ endswith(line, ")")
    \/ /\ contains(line, BQ)
       /\ ~startswith_any(line, <<"PRIMARY KEY", "UNIQUE KEY", "KEY", "CONSTRAINT">>)

\* MySQLDumpParser._is_line_complete
is_line_complete(line) ==
    \/ /\ startswith(line, "CONSTRAINT")
       /\ contains(line, "REFERENCES")
       /\ contains(split(line, "REFERENCES")[2], ")")
    \/ /\ startswith_any(line, <<"PRIMARY KEY", "UNIQUE KEY", "KEY">>)
       /\ endswith(line, ")")
    \/ /\ contains(line, BQ)
       /\ ~startswith_any(line, KeyPrefixes)

\* [line.strip() for line in parts]
strip_all(parts) == [k \in 1..Len(parts) |-> strip(parts[k])]

\* [line.strip() for line in table_definition.split(',\n')]
split_definition(table_definition) == strip_all(split(table_definition, ",\n"))

\* a faulty keep_or_wait: current_line is not emptied after a complete line
keep_or_wait_no_reset(cur, cleaned_lines0) ==
    IF is_line_complete(cur) THEN <<cur, Append(cleaned_lines0, cur)>>
    ELSE <<cur, cleaned_lines0>>

\* lines 142-144: the line joined so far is complete and goes to cleaned_lines, or waits
keep_or_wait(cur, cleaned_lines0) ==
    IF is_line_complete(cur) THEN <<"", Append(cleaned_lines0, cur)>>
    ELSE <<cur, cleaned_lines0>>

\* lines 132-144: a line already stripped joins what waits
clean_stripped(line, current_line0, cleaned_lines0) ==
    IF line = "" THEN <<current_line0, cleaned_lines0>>
    ELSE keep_or_wait(IF current_line0 # "" THEN current_line0 \o ", " \o line ELSE line,
                      cleaned_lines0)

\* one turn of the loop that cleans the lines: the new (current_line, cleaned_lines)
clean_line(line, current_line0, cleaned_lines0) ==
    clean_stripped(strip(line), current_line0, cleaned_lines0)

\* lines 171-173 and 176-178: the first token is the type, the rest the attributes
first_token_type(data_type_parts) ==
    <<data_type_parts[1], IF Len(data_type_parts) > 1 THEN data_type_parts[2] ELSE "">>

\* lines 165-173: an enum or set type, from the match of its keyword and arguments
enum_type(rest_of_line, enum_m) ==
    IF enum_m.ok
    THEN <<enum_m.g[1] \o "(" \o enum_m.g[2] \o ")", strip(From(rest_of_line, enum_m.end))>>
    ELSE first_token_type(split_ws1(rest_of_line))

\* rest_of_line.lower().startswith(('enum', 'set'))
is_enum_or_set(low) == startswith(low, "enum") \/ startswith(low, "set")

\* lines 162-178: the data type and the attributes of a column, from the text after
\* its name
type_and_attributes(rest_of_line) ==
    IF is_enum_or_set(lower(rest_of_line))
    THEN enum_type(rest_of_line, enum_match(rest_of_line))
    ELSE first_token_type(split_ws1(rest_of_line))

\* lines 181-185: default, from the match of DEFAULT
default_of(default_m) == IF default_m.ok THEN Some(default_m.g[1]) ELSE None

\* a faulty column_of: nullable looks for NULL, not for NOT NULL
column_of_null(col_name, data_type, attributes) ==
    Column(col_name, data_type,
           contains(attributes, "NULL") /\ ~contains(attributes, "NOT NULL"),
           default_of(default_match(attributes)),
           IF contains(attributes, "AUTO_INCREMENT") THEN "AUTO_INCREMENT" ELSE "")

\* lines 181-191: the Column of a name, a data type and attributes
column_of(col_name, data_type, attributes) ==
    Column(col_name, data_type,
           ~contains(attributes, "NOT NULL"),
           default_of(default_match(attributes)),
           IF contains(attributes, "AUTO_INCREMENT") THEN "AUTO_INCREMENT" ELSE "")

\* the Column of a name and the pair (data type, attributes)
column_typed(col_name, ta) == column_of(col_name, ta[1], ta[2])

\* lines 157-191: the Column of a line, from its match with column_match
column_from(line, col_m) ==
    column_typed(col_m.g[1], type_and_attributes(From(line, col_m.end)))

\* the Column of a line that column_match matches
parse_column(line) == column_from(line, column_match(line))

\* [col.strip('~ ') for col in parts]
strip_columns(parts) == [k \in 1..Len(parts) |-> strip_chars(parts[k], {BQ, " "})]

\* [col.strip('~ ') for col in group.split(',')]
column_list(group) == strip_columns(split(group, ","))

\* lines 195-199: the primary key of a match
pk_constraint(m) ==
    IF m.ok THEN <<Constraint("PRIMARY", "PRIMARY KEY", column_list(m.g[1]), None, None)>>
    ELSE <<>>

\* a faulty unique_constraint: the unique key is stored as an index
unique_constraint_as_index(m) ==
    IF m.ok THEN <<Constraint(m.g[1], "INDEX", column_list(m.g[2]), None, None)>> ELSE <<>>

\* lines 202-207: the unique key of a match
unique_constraint(m) ==
    IF m.ok THEN <<Constraint(m.g[1], "UNIQUE", column_list(m.g[2]), None, None)>> ELSE <<>>

\* lines 210-217: the foreign key of a match
fk_constraint(m) ==
    IF m.ok THEN <<Constraint(m.g[1], "FOREIGN KEY", column_list(m.g[2]),
                              Some(m.g[3]), Some(column_list(m.g[4])))>>
    ELSE <<>>

\* lines 220-225: the index of a match
idx_constraint(m) ==
    IF m.ok THEN <<Constraint(m.g[1], "INDEX", column_list(m.g[2]), None, None)>> ELSE <<>>

\* the first of four patterns that matched: each is tried only when none before it
\* matched
first_match(pk, unique, fk, idx) ==
    IF pk # <<>> THEN pk ELSE IF unique # <<>> THEN unique ELSE IF fk # <<>> THEN fk ELSE idx

\* lines 194-225: the Constraint of a line, <<>> when no key or constraint pattern
\* matches it: primary key, unique key, foreign key, index, tried in this order
parse_constraint(line) ==
    first_match(pk_constraint(pk_match(line)), unique_constraint(unique_match(line)),
                fk_constraint(fk_match(line)), idx_constraint(idx_match(line)))

\* line 191: columns[col_name] = Column(...)
with_column(columns0, c) == (c.name :> c) @@ columns0

\* lines 151-225: a line already stripped is a column, or a constraint, or nothing
parse_stripped(line, columns0, constraints0) ==
    IF ~startswith_any(line, KeyPrefixes) /\ column_match(line).ok
    THEN <<with_column(columns0, parse_column(line)), constraints0>>
    ELSE <<columns0, constraints0 \o parse_constraint(line)>>

\* one turn of the loop that analyses the cleaned lines: the new (columns, constraints)
parse_line(line, columns0, constraints0) == parse_stripped(strip(line), columns0, constraints0)

(***************************************************************************)
(* SQLDiff.compare                                                         *)
(***************************************************************************)

\* the report of two structures that do not differ
NoDifference == "Aucune différence de structure trouvée."

\* str(x) of an Optional[str] inside an f-string
fmt(opt) == IF opt = None THEN "None" ELSE opt[1]

\* the concatenation of a sequence of sequences
RECURSIVE flatten(_)
flatten(seqs) == IF seqs = <<>> THEN <<>> ELSE Head(seqs) \o flatten(Tail(seqs))

\* (c_type, c_cols) < (d_type, d_cols): the order sorted() gives the constraint keys
key_less(a, b) == IF a[1] = b[1] THEN tuple_less(a[2], b[2]) ELSE str_less(a[1], b[1])

\* sorted(S) for a set of constraint keys
RECURSIVE sorted_keys(_)
sorted_keys(S) ==
    IF S = {} THEN <<>>
    ELSE LET m == CHOOSE x \in S : \A y \in S : x = y \/ key_less(x, y)
         IN  <<m>> \o sorted_keys(S \ {m})

\* a faulty constraint_dict: the table referenced is part of the key
constraint_dict_with_target(cons) ==
    LET Key(k) == <<cons[k].constraint_type, cons[k].columns \o <<fmt(cons[k].referenced_table)>>>>
    IN  [key \in { Key(k) : k \in 1..Len(cons) } |->
            cons[SetMax({ k \in 1..Len(cons) : Key(k) = key })]]

\* a faulty constraint_dict: the key is the kind and the name
constraint_dict_by_name(cons) ==
    LET Key(k) == <<cons[k].constraint_type, <<cons[k].name>>>>
    IN  [key \in { Key(k) : k \in 1..Len(cons) } |->
            cons[SetMax({ k \in 1..Len(cons) : Key(k) = key })]]

\* {(c.constraint_type, tuple(c.columns)): c for c in constraints}: a later
\* constraint of the same key replaces an earlier one
constraint_dict(cons) ==
    LET Key(k) == <<cons[k].constraint_type, cons[k].columns>>
    IN  [key \in { Key(k) : k \in 1..Len(cons) } |->
            cons[SetMax({ k \in 1..Len(cons) : Key(k) = key })]]

\* the line of a removed ("-") or added ("+") constraint
constraint_line(sign, c) ==
    LET head == "    " \o sign \o " " \o c.constraint_type \o " " \o c.name
                  \o " (" \o join(", ", c.columns) \o ")"
    IN  IF c.constraint_type = "FOREIGN KEY"
        THEN head \o " REFERENCES " \o fmt(c.referenced_table)
                  \o " (" \o join(", ", c.referenced_columns[1]) \o ")"
        ELSE head

\* a faulty column_diff: only a change of type makes a column modified
column_diff_type_only(col_name, col1, col2) ==
    IF col1.data_type = col2.data_type THEN <<>>
    ELSE <<"  Colonne modifiée: " \o col_name,
           "    Type: " \o col1.data_type \o " -> " \o col2.data_type>>
         \o (IF col1.nullable # col2.nullable
             THEN <<"    Nullable: " \o (IF col1.nullable THEN "NULL" ELSE "NOT NULL")
                      \o " -> " \o (IF col2.nullable THEN "NULL" ELSE "NOT NULL")>> ELSE <<>>)
         \o (IF col1.default # col2.default
             THEN <<"    Default: " \o fmt(col1.default) \o " -> " \o fmt(col2.default)>> ELSE <<>>)
         \o (IF col1.extra # col2.extra
             THEN <<"    Extra: " \o col1.extra \o " -> " \o col2.extra>> ELSE <<>>)

\* the lines of a column of both tables: nothing when the two are equal
column_diff(col_name, col1, col2) ==
    IF col1 = col2 THEN <<>>
    ELSE <<"  Colonne modifiée: " \o col_name>>
         \o (IF col1.data_type # col2.data_type
             THEN <<"    Type: " \o col1.data_type \o " -> " \o col2.data_type>> ELSE <<>>)
         \o (IF col1.nullable # col2.nullable
             THEN <<"    Nullable: " \o (IF col1.nullable THEN "NULL" ELSE "NOT NULL")
                      \o " -> " \o (IF col2.nullable THEN "NULL" ELSE "NOT NULL")>> ELSE <<>>)
         \o (IF col1.default # col2.default
             THEN <<"    Default: " \o fmt(col1.default) \o " -> " \o fmt(col2.default)>> ELSE <<>>)
         \o (IF col1.extra # col2.extra
             THEN <<"    Extra: " \o col1.extra \o " -> " \o col2.extra>> ELSE <<>>)

\* table_diff of compare: the lines of one table of both structures
table_diff(table1, table2) ==
    LET cols1 == DOMAIN table1.columns
        cols2 == DOMAIN table2.columns
        missing_cols == sorted(cols1 \ cols2)
        extra_cols   == sorted(cols2 \ cols1)
        common_cols  == sorted(cols1 \cap cols2)
        constraints1 == constraint_dict(table1.constraints)
        constraints2 == constraint_dict(table2.constraints)
        missing_constraints == sorted_keys(DOMAIN constraints1 \ DOMAIN constraints2)
        extra_constraints   == sorted_keys(DOMAIN constraints2 \ DOMAIN constraints1)
    IN  (IF table1.charset # table2.charset
         THEN <<"  Différence de jeu de caractères: " \o fmt(table1.charset)
                  \o " -> " \o fmt(table2.charset)>> ELSE <<>>)
     \o (IF table1.collation # table2.collation
         THEN <<"  Différence de collation: " \o fmt(table1.collation)
                  \o " -> " \o fmt(table2.collation)>> ELSE <<>>)
     \o (IF missing_cols # <<>>
         THEN <<"  Colonnes supprimées:">>
              \o [k \in 1..Len(missing_cols) |-> "    - " \o missing_cols[k]] ELSE <<>>)
     \o (IF extra_cols # <<>>
         THEN <<"  Colonnes ajoutées:">>
              \o [k \in 1..Len(extra_cols) |->
                    "    + " \o extra_cols[k] \o " " \o table2.columns[extra_cols[k]].data_type]
         ELSE <<>>)
     \o flatten([k \in 1..Len(common_cols) |->
                    column_diff(common_cols[k], table1.columns[common_cols[k]],
                                table2.columns[common_cols[k]])])
     \o (IF missing_constraints # <<>>
         THEN <<"  Contraintes supprimées:">>
              \o [k \in 1..Len(missing_constraints) |->
                    constraint_line("-", constraints1[missing_constraints[k]])] ELSE <<>>)
     \o (IF extra_constraints # <<>>
         THEN <<"  Contraintes ajoutées:">>
              \o [k \in 1..Len(extra_constraints) |->
                    constraint_line("+", constraints2[extra_constraints[k]])] ELSE <<>>)

\* the header of the block of a table
block_header(table_name) == "Différences pour la table " \o BQ \o table_name \o BQ \o ":"

\* a faulty table_block: the header is written whether or not the table differs
table_block_always(table_name, table1, table2) ==
    <<block_header(table_name)>> \o table_diff(table1, table2) \o <<"">>

\* lines 354-357: the block of one common table: its header, its lines and an empty
\* line, or nothing
table_block(table_name, table1, table2) ==
    IF table_diff(table1, table2) = <<>> THEN <<>>
    ELSE <<block_header(table_name)>> \o table_diff(table1, table2) \o <<"">>

\* the titles of the two lists of tables
MissingTitle == "Tables présentes dans le premier fichier mais absentes dans le second:"
ExtraTitle == "Tables présentes dans le second fichier mais absentes dans le premier:"

\* a faulty missing_tables: every table of the first file
missing_tables_all(tables1, tables2) == sorted(DOMAIN tables1)

\* lines 259 and 262: sorted(tables1 - tables2)
missing_tables(tables1, tables2) == sorted(DOMAIN tables1 \ DOMAIN tables2)

\* a faulty extra_tables: every table of the second file
extra_tables_all(tables1, tables2) == sorted(DOMAIN tables2)

\* lines 267 and 270: sorted(tables2 - tables1)
extra_tables(tables1, tables2) == sorted(DOMAIN tables2 \ DOMAIN tables1)

\* lines 275-276: sorted(tables1.intersection(tables2))
common_tables(tables1, tables2) == sorted(DOMAIN tables1 \cap DOMAIN tables2)

\* lines 260-264 and 268-272: a title, the names and an empty line, or nothing
tables_section(title, names) ==
    IF names # <<>>
    THEN <<title>> \o [k \in 1..Len(names) |-> "  - " \o names[k]] \o <<"">>
    ELSE <<>>

\* lines 276-357: the blocks of the common tables, in their order
table_blocks(tables1, tables2, common) ==
    flatten([k \in 1..Len(common) |->
                table_block(common[k], tables1[common[k]], tables2[common[k]])])

\* the list "result" of compare at its return
compare_lines(tables1, tables2) ==
    tables_section(MissingTitle, missing_tables(tables1, tables2))
     \o tables_section(ExtraTitle, extra_tables(tables1, tables2))
     \o table_blocks(tables1, tables2, common_tables(tables1, tables2))

\* SQLDiff.compare
compare(tables1, tables2) ==
    IF compare_lines(tables1, tables2) # <<>> THEN join("\n", compare_lines(tables1, tables2))
    ELSE NoDifference


(***************************************************************************)
(* The program sql_diff.py: main() builds SQLDiff(file1, file2), which     *)
(* builds one MySQLDumpParser per file, and prints compare().              *)
(***************************************************************************)

VARIABLES
    fs,             \* the file system: path -> None (no such file) or Some(content)
    pc,             \* where the program stands
    parser,         \* the parser under construction: 1 (parser1) or 2 (parser2)
    tables,         \* parser -> its tables, a dict table name -> Table
    table_matches,  \* parse: the matches of finditer not yet visited
    table_name,     \* parse: the table of the current match
    charset,        \* parse: its DEFAULT CHARSET, or None
    collation,      \* parse: its COLLATE, or None
    lines,          \* parse: the stripped pieces of its definition
    line_no,        \* parse: the next of lines to clean
    current_line,   \* parse: the pieces joined and not yet complete
    cleaned_lines,  \* parse: the complete lines
    cleaned_no,     \* parse: the next of cleaned_lines to analyse
    columns,        \* parse: the columns of the current table
    constraints,    \* parse: its constraints
    stdout,         \* what main printed: None or Some(text)
    stderr,         \* what main printed as errors: None or Some(text)
    exit_code,      \* None while running, then Some(0) or Some(1)
    table_names,    \* sql_dump_extractor: the tables whose data goes (--table)
    output_stream,  \* sql_dump_extractor: the output path, or None for the standard output
    input_lines,    \* remove_tables_data: lines, what readlines() gave
    input_no,       \* remove_tables_data: the next line to treat
    output_lines,   \* remove_tables_data: the lines kept
    tables_found    \* remove_tables_data: the named tables seen in a CREATE TABLE

parse_vars == <<table_matches, table_name, charset, collation, lines, line_no,
                current_line, cleaned_lines, cleaned_no, columns, constraints>>
extract_vars == <<table_names, output_stream, input_lines, input_no, output_lines, tables_found>>
vars == <<fs, pc, parser, tables, parse_vars, stdout, stderr, exit_code, extract_vars>>

\* args.file1 and args.file2
Paths == <<"a.sql", "b.sql">>

\* a dict with no key
EmptyDict == <<>>

\* a faulty parse_missing: a file that does not exist is read as an empty file
parse_missing_as_empty ==
    /\ pc = "parse"
    /\ fs[Paths[parser]] = None
    /\ table_matches' = <<>>
    /\ pc' = "tables"
    /\ UNCHANGED <<fs, parser, tables, table_name, charset, collation, lines, line_no,
                   current_line, cleaned_lines, cleaned_no, columns, constraints,
                   stdout, stderr, exit_code, extract_vars>>

\* parse, lines 93-94: the file does not exist; FileNotFoundError leaves __init__ and
\* SQLDiff.__init__, main prints it and exits with 1
parse_missing ==
    /\ pc = "parse"
    /\ fs[Paths[parser]] = None
    /\ stderr' = Some("Erreur: Le fichier " \o Paths[parser] \o " n'existe pas.")
    /\ exit_code' = Some(1)
    /\ pc' = "exit"
    /\ UNCHANGED <<fs, parser, tables, parse_vars, stdout, extract_vars>>

\* parse, lines 96-101: the file is read and its CREATE TABLE statements found
parse_read ==
    /\ pc = "parse"
    /\ fs[Paths[parser]] # None
    /\ table_matches' = finditer(fs[Paths[parser]][1], 1)
    /\ pc' = "tables"
    /\ UNCHANGED <<fs, parser, tables, table_name, charset, collation, lines, line_no,
                   current_line, cleaned_lines, cleaned_no, columns, constraints,
                   stdout, stderr, exit_code, extract_vars>>

\* parse, lines 103-128: the next match; its name, its options and its lines
parse_table ==
    /\ pc = "tables"
    /\ table_matches # <<>>
    /\ LET match == Head(table_matches)
       IN  /\ table_name' = match.g[1]
           /\ lines' = split_definition(match.g[2])
           /\ charset' = charset_match(match.g[3])
           /\ collation' = collation_match(match.g[3])
    /\ table_matches' = Tail(table_matches)
    /\ columns' = EmptyDict
    /\ constraints' = <<>>
    /\ cleaned_lines' = <<>>
    /\ current_line' = ""
    /\ line_no' = 1
    /\ cleaned_no' = 1
    /\ pc' = "clean"
    /\ UNCHANGED <<fs, parser, tables, stdout, stderr, exit_code, extract_vars>>

\* parse, lines 130-144: one line is cleaned
parse_clean ==
    /\ pc = "clean"
    /\ line_no <= Len(lines)
    /\ LET r == clean_line(lines[line_no], current_line, cleaned_lines)
       IN  /\ current_line' = r[1]
           /\ cleaned_lines' = r[2]
    /\ line_no' = line_no + 1
    /\ UNCHANGED <<fs, pc, parser, tables, table_matches, table_name, charset, collation,
                   lines, cleaned_no, columns, constraints, stdout, stderr, exit_code, extract_vars>>

\* parse, lines 146-147: after the last line, what is pending is a line too
parse_cleaned ==
    /\ pc = "clean"
    /\ line_no > Len(lines)
    /\ cleaned_lines' = IF current_line # "" THEN Append(cleaned_lines, current_line)
                        ELSE cleaned_lines
    /\ pc' = "analyse"
    /\ UNCHANGED <<fs, parser, tables, table_matches, table_name, charset, collation,
                   lines, line_no, current_line, cleaned_no, columns, constraints,
                   stdout, stderr, exit_code, extract_vars>>

\* parse, lines 150-225: one cleaned line is analysed
parse_analyse ==
    /\ pc = "analyse"
    /\ cleaned_no <= Len(cleaned_lines)
    /\ LET r == parse_line(cleaned_lines[cleaned_no], columns, constraints)
       IN  /\ columns' = r[1]
           /\ constraints' = r[2]
    /\ cleaned_no' = cleaned_no + 1
    /\ UNCHANGED <<fs, pc, parser, tables, table_matches, table_name, charset, collation,
                   lines, line_no, current_line, cleaned_lines, stdout, stderr, exit_code, extract_vars>>

\* parse, line 228: the Table is stored under its name
parse_store ==
    /\ pc = "analyse"
    /\ cleaned_no > Len(cleaned_lines)
    /\ tables' = [tables EXCEPT ![parser] =
                    (table_name :> Table(table_name, columns, constraints, charset, collation))
                    @@ tables[parser]]
    /\ pc' = "tables"
    /\ UNCHANGED <<fs, parser, parse_vars, stdout, stderr, exit_code, extract_vars>>

\* SQLDiff.__init__, lines 247-248: parser1 is built, parser2 is next
parser1_built ==
    /\ pc = "tables"
    /\ table_matches = <<>>
    /\ parser = 1
    /\ parser' = 2
    /\ pc' = "parse"
    /\ UNCHANGED <<fs, tables, parse_vars, stdout, stderr, exit_code, extract_vars>>

\* main, lines 375-389: both parsers are built; the report is computed and printed
main_compare ==
    /\ pc = "tables"
    /\ table_matches = <<>>
    /\ parser = 2
    /\ stdout' = Some(compare(tables[1], tables[2]))
    /\ exit_code' = Some(0)
    /\ pc' = "exit"
    /\ UNCHANGED <<fs, parser, tables, parse_vars, stderr, extract_vars>>

Next ==
    \/ parse_missing
    \/ parse_read
    \/ parse_table
    \/ parse_clean
    \/ parse_cleaned
    \/ parse_analyse
    \/ parse_store
    \/ parser1_built
    \/ main_compare

\* the locals of sql_diff.py before anything ran
DiffIdle ==
    /\ parser = 1
    /\ tables = <<EmptyDict, EmptyDict>>
    /\ table_matches = <<>>
    /\ table_name = ""
    /\ charset = None
    /\ collation = None
    /\ lines = <<>>
    /\ line_no = 1
    /\ current_line = ""
    /\ cleaned_lines = <<>>
    /\ cleaned_no = 1
    /\ columns = EmptyDict
    /\ constraints = <<>>

\* the locals of sql_dump_extractor.py before anything ran
ExtractIdle ==
    /\ table_names = <<>>
    /\ output_stream = None
    /\ input_lines = <<>>
    /\ input_no = 1
    /\ output_lines = <<>>
    /\ tables_found = {}

\* the state main() of sql_diff.py starts in, for the two files given
Start(file1, file2) ==
    /\ fs = (Paths[1] :> file1) @@ (Paths[2] :> file2)
    /\ pc = "parse"
    /\ stdout = None
    /\ stderr = None
    /\ exit_code = None
    /\ DiffIdle
    /\ ExtractIdle


(***************************************************************************)
(* The program sql_dump_extractor.py --table: remove_tables_data, reading  *)
(* the dump from a file                                                    *)
(***************************************************************************)

\* the dump file given to sql_dump_extractor.py
DumpPath == "dump.sql"

\* <keyword>~([^~]+)~ at position j
name_at(line, j, keyword) == quoted(line, lit(line, At(j), keyword))

\* pattern.search(line) for a pattern <keyword>~([^~]+)~: the leftmost match
name_search(line, keyword) ==
    name_at(line, leftmost({ j \in 1..Len(line) : name_at(line, j, keyword).ok }), keyword)

\* insert_pattern.search(line), insert_pattern = INSERT INTO ~([^~]+)~
insert_search(line) == name_search(line, "INSERT INTO ")

\* create_table_pattern.search(line), create_table_pattern = CREATE TABLE ~([^~]+)~
create_table_search(line) == name_search(line, "CREATE TABLE ")

\* x in table_names, a list
in_list(x, list) == \E k \in 1..Len(list) : list[k] = x

\* f.readlines(): the lines of a text, each with its line end
RECURSIVE readlines(_)
readlines(text) ==
    LET j == find(text, "\n", 1)
    IN  IF text = "" THEN <<>>
        ELSE IF j = 0 THEN <<text>>
        ELSE <<SubSeq(text, 1, j)>> \o readlines(From(text, j + 1))

\* a faulty is_target_insert: any INSERT INTO of a named table in the line counts
is_target_insert_any(line, names) ==
    \E k \in 1..Len(names) : contains(line, "INSERT INTO " \o BQ \o names[k] \o BQ)

\* lines 81-87: whether the loop drops the line
is_target_insert(line, names) ==
    LET match == insert_search(line)
    IN  match.ok /\ in_list(match.g[1], names)

\* lines 90-92: tables_found after the line
found_after(line, names, found) ==
    LET match == create_table_search(line)
    IN  IF match.ok /\ in_list(match.g[1], names) THEN found \cup {match.g[1]} ELSE found

\* the orders in which a set may be iterated
Orders(S) == { o \in [1..Cardinality(S) -> S] : \A x \in S : \E k \in DOMAIN o : o[k] = x }

\* lines 72, 117-119: the file does not exist
extract_missing ==
    /\ pc = "read"
    /\ fs[DumpPath] = None
    /\ stderr' = Some("Erreur: Le fichier " \o DumpPath \o " n'existe pas.")
    /\ exit_code' = Some(1)
    /\ pc' = "exit"
    /\ UNCHANGED <<fs, parser, tables, parse_vars, stdout, extract_vars>>

\* lines 71-73: the dump is read
extract_read ==
    /\ pc = "read"
    /\ fs[DumpPath] # None
    /\ input_lines' = readlines(fs[DumpPath][1])
    /\ input_no' = 1
    /\ pc' = "filter"
    /\ UNCHANGED <<fs, parser, tables, parse_vars, stdout, stderr, exit_code,
                   table_names, output_stream, output_lines, tables_found>>

\* lines 79-92: one line is treated
extract_line ==
    /\ pc = "filter"
    /\ input_no <= Len(input_lines)
    /\ LET line == input_lines[input_no]
       IN  IF is_target_insert(line, table_names)
           THEN UNCHANGED <<output_lines, tables_found>>
           ELSE /\ output_lines' = Append(output_lines, line)
                /\ tables_found' = found_after(line, table_names, tables_found)
    /\ input_no' = input_no + 1
    /\ UNCHANGED <<fs, pc, parser, tables, parse_vars, stdout, stderr, exit_code,
                   table_names, output_stream, input_lines>>

\* lines 104-109: the warning about the tables not found, None when all were
not_found_warning(not_found_order) ==
    IF Len(not_found_order) = 0 THEN None
    ELSE IF Len(not_found_order) = 1
    THEN Some("Attention: La table '" \o not_found_order[1]
              \o "' n'a pas été trouvée dans le dump.")
    ELSE Some("Attention: Les tables suivantes n'ont pas été trouvées dans le dump: "
              \o join(", ", not_found_order))

\* lines 111-115: the last message of a run that wrote a file
found_message(found_order) ==
    IF Len(found_order) = 0 THEN <<>>
    ELSE IF Len(found_order) = 1
    THEN <<"Toutes les tables ont été conservées, mais les données de la table '"
           \o found_order[1] \o "' ont été supprimées.">>
    ELSE <<"Toutes les tables ont été conservées, mais les données des tables suivantes ont été supprimées: "
           \o join(", ", found_order)>>

\* lines 94-115: the kept lines are written, to the file or to the standard output,
\* and the messages printed; a set is iterated in an order of Python's choosing
extract_write ==
    /\ pc = "filter"
    /\ input_no > Len(input_lines)
    /\ \E found_order \in Orders(tables_found) :
       \E not_found_order \in Orders({ table_names[k] : k \in DOMAIN table_names } \ tables_found) :
          /\ stderr' = not_found_warning(not_found_order)
          /\ IF output_stream # None
             THEN /\ fs' = (output_stream[1] :> Some(join("", output_lines))) @@ fs
                  /\ stdout' = Some(join("\n",
                        <<"Le dump a été créé avec succès dans le fichier '"
                          \o output_stream[1] \o "'.">> \o found_message(found_order)))
             ELSE /\ fs' = fs
                  /\ stdout' = Some(join("", output_lines))
    /\ exit_code' = Some(0)
    /\ pc' = "exit"
    /\ UNCHANGED <<parser, tables, parse_vars, extract_vars>>

NextExtract ==
    \/ extract_missing
    \/ extract_read
    \/ extract_line
    \/ extract_write

\* the state main() of sql_dump_extractor.py starts in
StartExtract(dump, names, out) ==
    /\ fs = (DumpPath :> dump)
    /\ pc = "read"
    /\ stdout = None
    /\ stderr = None
    /\ exit_code = None
    /\ DiffIdle
    /\ table_names = names
    /\ output_stream = out
    /\ input_lines = <<>>
    /\ input_no = 1
    /\ output_lines = <<>>
    /\ tables_found = {}


(***************************************************************************)
(* The inputs: dump files as mysqldump writes them                         *)
(***************************************************************************)

\* the number of table names the dumps compared draw from
MaxTables == 3
\* the number of clauses in the table bodies that exercise the parser
MaxClauses == 2
\* the number of lines of the dumps given to sql_dump_extractor.py
MaxLines == 3

\* a CREATE TABLE statement: its clauses one per line, separated by a comma
Statement(name, clauses, options) ==
    "CREATE TABLE " \o BQ \o name \o BQ \o " (\n  " \o join(",\n  ", clauses)
        \o "\n) " \o options \o ";\n"

\* a column clause: ~name~ TYPE [NOT NULL] [DEFAULT value] [AUTO_INCREMENT]
ColumnClause(d) ==
    BQ \o d.name \o BQ \o " " \o d.type
       \o (IF d.notnull THEN " NOT NULL" ELSE "")
       \o (IF d.default # None THEN " DEFAULT " \o d.default[1] ELSE "")
       \o (IF d.autoinc THEN " AUTO_INCREMENT" ELSE "")

\* the columns of a plain type
ColumnDescs ==
    [name : {"id"}, type : {"int(11)", "decimal(10,2)", "varchar(255)"},
     notnull : BOOLEAN, default : {None, Some("NULL"), Some("'a'"), Some("'a,b c'"), Some("'NOT NULL'")},
     autoinc : BOOLEAN]

\* the columns of an enum or set type: the keyword and its argument list
EnumDescs ==
    [name : {"status"}, keyword : {"enum", "set", "ENUM"}, args : {"'a','b','c'", "'a)','b'"},
     notnull : BOOLEAN, default : {None, Some("'a'")}, autoinc : {FALSE}]

EnumClause(d) ==
    ColumnClause([name |-> d.name, type |-> d.keyword \o "(" \o d.args \o ")",
                  notnull |-> d.notnull, default |-> d.default, autoinc |-> d.autoinc])

\* clauses of the supported shapes: the text, the kind, and the name of a column
SupportedClauses == {
    [text |-> "~id~ int(11) NOT NULL AUTO_INCREMENT", kind |-> "column", name |-> "id"],
    [text |-> "~name~ varchar(255) DEFAULT NULL", kind |-> "column", name |-> "name"],
    [text |-> "PRIMARY KEY (~id~)", kind |-> "PRIMARY KEY", name |-> ""],
    [text |-> "UNIQUE KEY ~uq~ (~a~)", kind |-> "UNIQUE", name |-> ""],
    [text |-> "KEY ~ix~ (~a~)", kind |-> "INDEX", name |-> ""],
    [text |-> "CONSTRAINT ~fk~ FOREIGN KEY (~a~) REFERENCES ~u~ (~id~)", kind |-> "FOREIGN KEY", name |-> ""] }

\* clauses mysqldump also writes, or that a body may hold, of no supported shape:
\* a key over two lines, a key with an index type, a foreign key without
\* CONSTRAINT, a check, nothing between two commas
OtherClauses == {
    "",
    "UNIQUE KEY ~uq2~ (~a~,\n  ~b~)",
    "KEY ~ix2~ (~name~) USING BTREE",
    "FOREIGN KEY (~a~) REFERENCES ~u~ (~id~)",
    "CHECK (x > 0)" }

CoreClauses == { c.text : c \in SupportedClauses } \cup OtherClauses

\* the sequences of 1..n elements of S
SeqsUpTo(S, n) == UNION { [1..k -> S] : k \in 1..n }

\* the table bodies that exercise the parser
ParseBodies ==
    { <<ColumnClause(d)>> : d \in ColumnDescs }
    \cup { <<EnumClause(d)>> : d \in EnumDescs }
    \cup SeqsUpTo(CoreClauses, MaxClauses)

TableOptions == "ENGINE=InnoDB DEFAULT CHARSET=utf8"

\* the versions of one table that the dumps compared hold: the same foreign key under
\* two names, the same foreign key to another target, other columns and keys with
\* the foreign key renamed, another engine
Versions == {
    [clauses |-> <<"~id~ int(11) NOT NULL AUTO_INCREMENT", "~user_id~ int(11) DEFAULT NULL",
                   "PRIMARY KEY (~id~)",
                   "CONSTRAINT ~fk_1~ FOREIGN KEY (~user_id~) REFERENCES ~users~ (~id~)">>,
     options |-> TableOptions],
    [clauses |-> <<"~id~ int(11) NOT NULL AUTO_INCREMENT", "~user_id~ int(11) DEFAULT NULL",
                   "PRIMARY KEY (~id~)",
                   "CONSTRAINT ~fk_2~ FOREIGN KEY (~user_id~) REFERENCES ~users~ (~id~)">>,
     options |-> TableOptions],
    [clauses |-> <<"~id~ int(11) NOT NULL AUTO_INCREMENT", "~user_id~ int(11) DEFAULT NULL",
                   "PRIMARY KEY (~id~)",
                   "CONSTRAINT ~fk_1~ FOREIGN KEY (~user_id~) REFERENCES ~accounts~ (~uid~)">>,
     options |-> TableOptions],
    [clauses |-> <<"~id~ bigint(20) NOT NULL", "~user_id~ int(11) NOT NULL DEFAULT 0",
                   "UNIQUE KEY ~uq~ (~user_id~)", "KEY ~k~ (~id~,~user_id~)",
                   "CONSTRAINT ~fk_2~ FOREIGN KEY (~user_id~) REFERENCES ~users~ (~id~)">>,
     options |-> "ENGINE=InnoDB DEFAULT CHARSET=latin1 COLLATE=latin1_bin"],
    [clauses |-> <<"~id~ int(11) NOT NULL AUTO_INCREMENT", "~note~ text",
                   "KEY ~k~ (~user_id~,~id~)", "KEY ~fk_1~ (~user_id~)">>,
     options |-> "ENGINE=MyISAM"] }

\* the table names, in the order the dumps hold the tables
TableNameList == <<"y", "x", "z", "Z", "xy">>
TableNames == { TableNameList[k] : k \in 1..MaxTables }

\* the dump of the tables named in S, each with the same two clauses
RECURSIVE PlainDump(_, _)
PlainDump(S, k) ==
    IF k > MaxTables THEN ""
    ELSE (IF TableNameList[k] \in S
          THEN Statement(TableNameList[k], <<"~id~ int(11) NOT NULL", "PRIMARY KEY (~id~)">>,
                         TableOptions)
          ELSE "")
         \o PlainDump(S, k + 1)

\* the dumps compared: any set of the tables, and the table y in each of its versions
DiffDumps ==
    { "-- MySQL dump\n" \o PlainDump(S, 1) : S \in SUBSET TableNames }
    \cup { Statement("y", v.clauses, v.options) : v \in Versions }

\* the files of a run: a dump each, or no such file
DiffFiles == { Some(d) : d \in DiffDumps } \cup {None}

\* sql_diff.py on any two of the dumps compared
Init == \E file1 \in DiffFiles, file2 \in DiffFiles : Start(file1, file2)

Spec == Init /\ [][Next]_vars

\* sql_diff.py on one table that exercises the parser, against an empty dump
InitParse ==
    \/ \E body \in ParseBodies : Start(Some(Statement("t", body, TableOptions)), Some(""))
    \/ Start(None, Some(""))

SpecParse == InitParse /\ [][Next]_vars

\* the lines of the dumps filtered
DumpLines == {
    "INSERT INTO ~a~ VALUES (1);\n",
    "INSERT INTO ~b~ VALUES (2);\n",
    "CREATE TABLE ~a~ (\n",
    "INSERT INTO ~b~ VALUES ('INSERT INTO ~a~ VALUES (1)');\n",
    "-- Dumping data for table ~a~\n" }

\* sql_dump_extractor.py --table on a dump of some lines, to a file or the standard output
InitExtract ==
    \/ \E ls \in SeqsUpTo(DumpLines, MaxLines),
          names \in {<<"a">>, <<"b">>, <<"a", "c">>},
          out \in {None, Some("out.sql")} :
            StartExtract(Some(join("", ls)), names, out)
    \/ StartExtract(None, <<"a">>, None)

SpecExtract == InitExtract /\ [][NextExtract]_vars

(***************************************************************************)
(* The report, read back: what the properties say is said of what main     *)
(* printed                                                                 *)
(***************************************************************************)

\* the elements of a sequence
Range(seq) == { seq[k] : k \in 1..Len(seq) }

\* the first position of x in seq, 0 when there is none
index_of(seq, x) == leftmost({ k \in 1..Len(seq) : seq[k] = x })

\* the lines of the report main printed
Report == split(stdout[1], "\n")

\* the lines after position i up to the first line that P rejects
RunAfter(seq, i, P(_)) ==
    IF i = 0 THEN <<>>
    ELSE SubSeq(seq, i + 1,
                SetMin({ k \in (i + 1)..(Len(seq) + 1) : k = Len(seq) + 1 \/ ~P(seq[k]) }) - 1)

\* the lines under a title, up to the next empty line
Section(report, title) == RunAfter(report, index_of(report, title), LAMBDA l : l # "")

\* the table names listed under a title
ListedTables(report, title) ==
    [k \in 1..Len(Section(report, title)) |-> From(Section(report, title)[k], 5)]

\* whether the names are in the strict order of str
StrictlySorted(names) == \A k \in 1..(Len(names) - 1) : str_less(names[k], names[k + 1])

\* the report lists exactly the names S under the title, sorted, each as "  - name",
\* and has the title only when there is a name
ListsExactly(report, title, S) ==
    /\ in_list(title, report) <=> S # {}
    /\ \A k \in 1..Len(Section(report, title)) : startswith(Section(report, title)[k], "  - ")
    /\ Range(ListedTables(report, title)) = S
    /\ StrictlySorted(ListedTables(report, title))

\* main ran to its end and printed a report
Reported == pc = "exit" /\ exit_code = Some(0)

\* the tables of both structures
CommonTables == DOMAIN tables[1] \cap DOMAIN tables[2]

\* C1: a structure compared with itself (the same dump given twice, or any two dumps
\* that parse to the same tables) gives exactly the sentence that nothing differs:
\* no list of tables, no block of a table.
C1_Idempotence ==
    (Reported /\ tables[1] = tables[2]) => stdout = Some(NoDifference)

\* a dump with a table of columns, keys and a foreign key was compared with itself
C1_Witness ==
    /\ Reported
    /\ fs[Paths[1]] = fs[Paths[2]]
    /\ "y" \in DOMAIN tables[1]
    /\ Len(tables[1]["y"].constraints) = 3
    /\ Cardinality(DOMAIN tables[2]["y"].columns) = 2
    /\ stdout = Some(NoDifference)

\* C2: the report lists as removed exactly the tables of the first structure that the
\* second has not, as added exactly those of the second that the first has not, each
\* list sorted; a table of both is in neither list, and its block is there exactly
\* when the two tables differ.
C2_MissingTableDetection ==
    Reported =>
        /\ ListsExactly(Report, MissingTitle, DOMAIN tables[1] \ DOMAIN tables[2])
        /\ ListsExactly(Report, ExtraTitle, DOMAIN tables[2] \ DOMAIN tables[1])
        /\ \A t \in CommonTables :
              /\ ~in_list("  - " \o t, Report)
              /\ in_list(block_header(t), Report)
                   <=> table_diff(tables[1][t], tables[2][t]) # <<>>
        /\ \A t \in (DOMAIN tables[1] \cup DOMAIN tables[2]) \ CommonTables :
              ~in_list(block_header(t), Report)

\* the first dump has the tables x and y, the second y and z
C2_Witness ==
    /\ Reported
    /\ DOMAIN tables[1] = {"x", "y"}
    /\ DOMAIN tables[2] = {"y", "z"}
    /\ ListedTables(Report, MissingTitle) = <<"x">>
    /\ ListedTables(Report, ExtraTitle) = <<"z">>

\* the report of the two structures compared the other way round
ReverseReport == split(compare(tables[2], tables[1]), "\n")

\* C3: a table is reported as added exactly when the comparison the other way round
\* reports it as removed, and as removed exactly when the other reports it as added.
C3_Symmetry ==
    Reported =>
        \A t \in DOMAIN tables[1] \cup DOMAIN tables[2] :
            /\ in_list(t, ListedTables(Report, ExtraTitle))
                 <=> in_list(t, ListedTables(ReverseReport, MissingTitle))
            /\ in_list(t, ListedTables(Report, MissingTitle))
                 <=> in_list(t, ListedTables(ReverseReport, ExtraTitle))

\* a comparison with a table added, a table removed and a table of both
C3_Witness ==
    /\ Reported
    /\ CommonTables # {}
    /\ ListedTables(Report, ExtraTitle) # <<>>
    /\ ListedTables(Report, MissingTitle) # <<>>
    /\ ListedTables(ReverseReport, MissingTitle) = ListedTables(Report, ExtraTitle)

\* the kinds of constraint
Kinds == {"PRIMARY KEY", "UNIQUE", "FOREIGN KEY", "INDEX"}

\* the keys (kind, columns) of the constraints of a table
KeysOf(table) ==
    { <<table.constraints[k].constraint_type, table.constraints[k].columns>> :
        k \in 1..Len(table.constraints) }

\* the key of a constraint line of the report: the kind after the sign, and the
\* columns of the first parenthesis
KeyOfLine(line) ==
    <<CHOOSE kind \in Kinds : MatchAt(line, 7, kind \o " "),
      split(SubSeq(line, find(line, "(", 1) + 1, find(line, ")", 1) - 1), ", ")>>

\* the constraint lines of a block under a title, each starting with the prefix
ConstraintLines(block, title, prefix) ==
    RunAfter(block, index_of(block, title), LAMBDA l : startswith(l, prefix))

\* the block lists under the title exactly one line for each key of K
ReportsKeys(block, title, prefix, K) ==
    /\ in_list(title, block) <=> K # {}
    /\ Len(ConstraintLines(block, title, prefix)) = Cardinality(K)
    /\ { KeyOfLine(l) : l \in Range(ConstraintLines(block, title, prefix)) } = K

\* C4: for a table of both structures, the constraints reported as removed are those
\* whose key (kind, columns in order) the first table has and the second has not, and
\* those reported as added the other way round, whatever their names: the same
\* foreign key under another name is no difference.
C4_ConstraintsByKey ==
    Reported =>
        \A t \in CommonTables :
            /\ ReportsKeys(Section(Report, block_header(t)), "  Contraintes supprimées:", "    - ",
                           KeysOf(tables[1][t]) \ KeysOf(tables[2][t]))
            /\ ReportsKeys(Section(Report, block_header(t)), "  Contraintes ajoutées:", "    + ",
                           KeysOf(tables[2][t]) \ KeysOf(tables[1][t]))

\* the foreign key fk_1 of the first dump is fk_2 in the second, which has lost the
\* primary key and gained two keys: the report has the three and not the foreign key
C4_Witness ==
    /\ Reported
    /\ "y" \in CommonTables
    /\ \E k \in 1..Len(tables[1]["y"].constraints) :
          /\ tables[1]["y"].constraints[k].name = "fk_1"
          /\ \E j \in 1..Len(tables[2]["y"].constraints) :
                /\ tables[2]["y"].constraints[j].name = "fk_2"
                /\ tables[2]["y"].constraints[j].columns = tables[1]["y"].constraints[k].columns
    /\ Len(ConstraintLines(Section(Report, block_header("y")), "  Contraintes supprimées:", "    - ")) = 1
    /\ Len(ConstraintLines(Section(Report, block_header("y")), "  Contraintes ajoutées:", "    + ")) = 2


(***************************************************************************)
(* The parser, clause by clause                                            *)
(***************************************************************************)

\* the loop that analyses the cleaned lines has just analysed the line
Analysed(line) ==
    /\ pc = "analyse"
    /\ cleaned_no > 1
    /\ cleaned_lines[cleaned_no - 1] = line

\* the text of a column clause after its type
AttributeTail(d) ==
    (IF d.notnull THEN " NOT NULL" ELSE "")
       \o (IF d.default # None THEN " DEFAULT " \o d.default[1] ELSE "")
       \o (IF d.autoinc THEN " AUTO_INCREMENT" ELSE "")

\* the token after DEFAULT, which ends before a whitespace or a comma
DefaultToken(d) ==
    IF d.default = None THEN None
    ELSE Some(SubSeq(d.default[1], 1, FirstIn(d.default[1], 1, Whitespace \cup {","}) - 1))

\* C5: a column clause ~name~ TYPE [NOT NULL] [DEFAULT value] [AUTO_INCREMENT], TYPE one
\* token that is no enum or set, gives the Column of that name and type, nullable
\* false exactly when NOT NULL stands in the text after the type, default the token
\* after DEFAULT, cut at a whitespace or a comma, or None, and extra AUTO_INCREMENT
\* when that word stands in the text after the type, empty otherwise.
C5_ColumnParsing ==
    \A d \in ColumnDescs :
        Analysed(ColumnClause(d)) =>
            /\ d.name \in DOMAIN columns
            /\ columns[d.name] =
                 [name |-> d.name, data_type |-> d.type,
                  nullable |-> ~contains(AttributeTail(d), "NOT NULL"),
                  default |-> DefaultToken(d),
                  extra |-> IF contains(AttributeTail(d), "AUTO_INCREMENT")
                            THEN "AUTO_INCREMENT" ELSE ""]

\* the clause ~id~ int(11) NOT NULL AUTO_INCREMENT was analysed
C5_Witness ==
    /\ Analysed("~id~ int(11) NOT NULL AUTO_INCREMENT")
    /\ columns = ("id" :> [name |-> "id", data_type |-> "int(11)", nullable |-> FALSE,
                           default |-> None, extra |-> "AUTO_INCREMENT"])

\* C6: a column clause whose type is enum or set, in any case, with a parenthesised
\* list of arguments gives as data type the keyword with the whole list as written,
\* and nullable, default and extra from the text after the list.
C6_EnumType ==
    \A d \in EnumDescs :
        Analysed(EnumClause(d)) =>
            /\ d.name \in DOMAIN columns
            /\ columns[d.name] =
                 [name |-> d.name, data_type |-> d.keyword \o "(" \o d.args \o ")",
                  nullable |-> ~d.notnull, default |-> d.default, extra |-> ""]

\* the clause ~status~ enum('a)','b') NOT NULL DEFAULT 'a' was analysed: the data type
\* stops at the first closing parenthesis
C6_Witness ==
    /\ Analysed("~status~ enum('a)','b') NOT NULL DEFAULT 'a'")
    /\ columns["status"].data_type = "enum('a)"

\* C7: when a file given does not exist, the parser built on it has no table and the
\* run ends with the error, the exit code 1 and no report; the second parser is not
\* built when the first file does not exist.
C7_MissingFile ==
    (\E i \in 1..2 : fs[Paths[i]] = None) =>
        /\ stdout = None
        /\ \A i \in 1..2 : fs[Paths[i]] = None => tables[i] = EmptyDict
        /\ fs[Paths[parser]] = None => pc \in {"parse", "exit"}
        /\ fs[Paths[1]] = None => parser = 1 /\ tables[2] = EmptyDict
        /\ pc = "exit" =>
              /\ exit_code = Some(1)
              /\ \E i \in 1..2 :
                    /\ fs[Paths[i]] = None
                    /\ stderr = Some("Erreur: Le fichier " \o Paths[i] \o " n'existe pas.")

\* the first file was parsed, the second does not exist: the run ended with the error
C7_Witness ==
    /\ pc = "exit"
    /\ fs[Paths[1]] # None
    /\ tables[1] # EmptyDict
    /\ fs[Paths[2]] = None
    /\ tables[2] = EmptyDict
    /\ exit_code = Some(1)
    /\ stdout = None

\* the lines that are not empty
Fragments(ls) == SelectSeq(ls, LAMBDA l : l # "")

\* the k-th of the positions E, in their order
Nth(E, k) == CHOOSE e \in E : Cardinality({ x \in E : x < e }) = k - 1

\* where the k-th run starts, the runs ending at the positions E
RunStart(E, k) == IF k = 1 THEN 1 ELSE Nth(E, k - 1) + 1

\* the fragments a to b, joined
Joined(F, a, b) == join(", ", SubSeq(F, a, b))

\* out is the fragments F cut into runs that end at the positions E, each run joined
\* with ", ", each but the last complete, and no run with a complete start shorter
\* than itself
IsSegmentation(F, out, E) ==
    /\ Len(out) = Cardinality(E)
    /\ \A k \in 1..Len(out) :
          /\ out[k] = Joined(F, RunStart(E, k), Nth(E, k))
          /\ k < Len(out) => is_line_complete(out[k])
          /\ \A j \in RunStart(E, k)..(Nth(E, k) - 1) :
                ~is_line_complete(Joined(F, RunStart(E, k), j))

\* out is the fragments F cut into such runs
Segments(F, out) ==
    IF F = <<>> THEN out = <<>>
    ELSE \E E \in SUBSET (1..(Len(F) - 1)) : IsSegmentation(F, out, E \cup {Len(F)})

\* what waits to be completed, as a sequence
Pending == IF current_line # "" THEN <<current_line>> ELSE <<>>

\* C9: the cleaned lines are the non-empty pieces of the body, cut in their order into
\* consecutive runs joined with ", ", none lost, repeated or moved: each line but the
\* last is the shortest run from its start that is complete; while the pieces are
\* read, what is not complete waits and is joined with the next piece, and what still
\* waits at the end is the last line.
C9_Segmentation ==
    /\ pc = "clean" =>
          /\ Segments(Fragments(SubSeq(lines, 1, line_no - 1)), cleaned_lines \o Pending)
          /\ \A k \in 1..Len(cleaned_lines) : is_line_complete(cleaned_lines[k])
          /\ current_line # "" => ~is_line_complete(current_line)
    /\ pc = "analyse" => Segments(Fragments(lines), cleaned_lines)

\* a key written over two lines was joined again, and the clause after it kept apart
C9_Witness ==
    /\ pc = "analyse"
    /\ Len(Fragments(lines)) = 3
    /\ Len(cleaned_lines) = 2
    /\ lines[1] = "UNIQUE KEY ~uq2~ (~a~"
    /\ cleaned_lines[1] = "UNIQUE KEY ~uq2~ (~a~, ~b~)"

\* the clause of a supported shape with the text
ClauseOf(text) == CHOOSE c \in SupportedClauses : c.text = text

\* a clause that no pattern matches
Unrecognised == "CHECK (x > 0)"

\* the clauses of ls of a supported shape
SupportedOf(ls) == SelectSeq(ls, LAMBDA l : l # Unrecognised)

\* the clauses of ls that are columns, and those that are keys or constraints
ColumnClausesOf(ls) == SelectSeq(SupportedOf(ls), LAMBDA l : ClauseOf(l).kind = "column")
KeyClausesOf(ls) == SelectSeq(SupportedOf(ls), LAMBDA l : ClauseOf(l).kind # "column")

\* the body is made of clauses of the supported shapes, the columns of distinct
\* names, with or without a last clause that no pattern matches
SupportedBody(ls) ==
    /\ ls # <<>>
    /\ \A k \in 1..Len(ls) :
          \/ \E c \in SupportedClauses : c.text = ls[k]
          \/ k = Len(ls) /\ ls[k] = Unrecognised
    /\ \A j, k \in 1..Len(ColumnClausesOf(ls)) :
          j # k => ClauseOf(ColumnClausesOf(ls)[j]).name # ClauseOf(ColumnClausesOf(ls)[k]).name

\* C10: of a body of clauses of the supported shapes, the columns of distinct names,
\* the Table stored has one Column for each column clause and one Constraint of the
\* kind of each key or constraint clause, in their order, and nothing else; a clause
\* that no pattern matches adds nothing, and the run ends without an error.
C10_Classification ==
    ("t" \in DOMAIN tables[1] /\ SupportedBody(lines)) =>
        /\ DOMAIN tables[1]["t"].columns
             = { ClauseOf(l).name : l \in Range(ColumnClausesOf(lines)) }
        /\ \A n \in DOMAIN tables[1]["t"].columns : tables[1]["t"].columns[n].name = n
        /\ [k \in 1..Len(tables[1]["t"].constraints) |->
               tables[1]["t"].constraints[k].constraint_type]
             = [k \in 1..Len(KeyClausesOf(lines)) |-> ClauseOf(KeyClausesOf(lines)[k]).kind]
        /\ pc = "exit" => exit_code = Some(0)

\* a table of a column and a unique key was stored
C10_Witness ==
    /\ "t" \in DOMAIN tables[1]
    /\ lines = <<"~id~ int(11) NOT NULL AUTO_INCREMENT", "UNIQUE KEY ~uq~ (~a~)">>
    /\ DOMAIN tables[1]["t"].columns = {"id"}
    /\ Len(tables[1]["t"].constraints) = 1
    /\ tables[1]["t"].constraints[1].constraint_type = "UNIQUE"

(***************************************************************************)
(* sql_dump_extractor.py: the lines kept                                   *)
(***************************************************************************)

\* the lines of seq that Drop does not take
Kept(seq, Drop(_)) == SelectSeq(seq, LAMBDA l : ~Drop(l))

\* what the run wrote: the file named, or the standard output
Written == IF output_stream # None THEN fs[output_stream[1]] ELSE stdout

\* the run wrote exactly the lines of the dump that Drop does not take, in their
\* order and as they were
WritesKept(Drop(_)) ==
    (pc = "exit" /\ exit_code = Some(0)) =>
        /\ join("", input_lines) = fs[DumpPath][1]
        /\ output_lines = Kept(input_lines, Drop)
        /\ Written = Some(join("", Kept(input_lines, Drop)))

\* INSERT INTO ~name~ with the name of one of the tables stands somewhere in the line
NamesTargetAnywhere(line) ==
    \E k \in 1..Len(table_names) :
        contains(line, "INSERT INTO " \o BQ \o table_names[k] \o BQ)

\* INSERT INTO ~name~, the name a character at least, stands at position j
InsertAt(line, j) ==
    /\ MatchAt(line, j, "INSERT INTO " \o BQ)
    /\ j + 13 <= Len(line)
    /\ Char(line, j + 13) # BQ
    /\ find(line, BQ, j + 13) # 0

\* the first INSERT INTO ~name~ of the line names one of the tables
FirstInsertNamesTarget(line) ==
    \E j \in 1..Len(line) :
        /\ InsertAt(line, j)
        /\ \A k \in 1..(j - 1) : ~InsertAt(line, k)
        /\ in_list(SubSeq(line, j + 13, find(line, BQ, j + 13) - 1), table_names)

\* C8, as stated: the output is the lines of the dump in their order, each as it was,
\* less exactly the lines in which INSERT INTO ~name~ stands for a table named.
C8_FilterAnywhere == WritesKept(NamesTargetAnywhere)

\* C8, amended: the output is the lines of the dump in their order, each as it was,
\* less exactly the lines whose first INSERT INTO ~name~ names a table named; a line
\* whose first INSERT INTO names another table is kept, whatever follows in it.
C8_FilterFirstInsert == WritesKept(FirstInsertNamesTarget)

\* the data of a was asked to go: its INSERT line went, and the INSERT line of b that
\* holds the text of an INSERT INTO ~a~ stayed, with the CREATE TABLE line of a
C8_Witness ==
    /\ pc = "exit"
    /\ exit_code = Some(0)
    /\ table_names = <<"a">>
    /\ input_lines = <<"CREATE TABLE ~a~ (\n", "INSERT INTO ~a~ VALUES (1);\n",
                       "INSERT INTO ~b~ VALUES ('INSERT INTO ~a~ VALUES (1)');\n">>
    /\ output_lines = <<"CREATE TABLE ~a~ (\n",
                        "INSERT INTO ~b~ VALUES ('INSERT INTO ~a~ VALUES (1)');\n">>
    /\ Written = Some(join("", output_lines))

(***************************************************************************)
(* The report of the columns of both tables                                *)
(***************************************************************************)

\* the title of the entry of a modified column
ModifiedTitle(col) == "  Colonne modifiée: " \o col

\* the columns of both tables
CommonColumns(t) == DOMAIN tables[1][t].columns \cap DOMAIN tables[2][t].columns

\* the columns of both tables that differ in a field
DifferingColumns(t) ==
    { c \in CommonColumns(t) :
        \/ tables[1][t].columns[c].data_type # tables[2][t].columns[c].data_type
        \/ tables[1][t].columns[c].nullable # tables[2][t].columns[c].nullable
        \/ tables[1][t].columns[c].default # tables[2][t].columns[c].default
        \/ tables[1][t].columns[c].extra # tables[2][t].columns[c].extra }

\* NULL or NOT NULL
Nullability(col) == IF col.nullable THEN "NULL" ELSE "NOT NULL"

\* one line for each field in which the two columns differ, in the order type,
\* nullability, default, extra
FieldLines(col1, col2) ==
    (IF col1.data_type # col2.data_type
     THEN <<"    Type: " \o col1.data_type \o " -> " \o col2.data_type>> ELSE <<>>)
    \o (IF col1.nullable # col2.nullable
        THEN <<"    Nullable: " \o Nullability(col1) \o " -> " \o Nullability(col2)>> ELSE <<>>)
    \o (IF col1.default # col2.default
        THEN <<"    Default: " \o fmt(col1.default) \o " -> " \o fmt(col2.default)>> ELSE <<>>)
    \o (IF col1.extra # col2.extra
        THEN <<"    Extra: " \o col1.extra \o " -> " \o col2.extra>> ELSE <<>>)

\* the lines of the block under the entry of a column: those that follow it, indented
EntryLines(block, col) ==
    RunAfter(block, index_of(block, ModifiedTitle(col)), LAMBDA l : startswith(l, "    "))

\* the columns that have an entry in the block, in the order of their entries
ModifiedColumns(block) ==
    [k \in 1..Len(SelectSeq(block, LAMBDA l : startswith(l, ModifiedTitle("")))) |->
        From(SelectSeq(block, LAMBDA l : startswith(l, ModifiedTitle("")))[k],
             Len(ModifiedTitle("")) + 1)]

\* C11: a column of the same table of both structures has an entry "modified" in the
\* report exactly when the two Columns differ in type, nullability, default or
\* extra; under the entry stands one line for each field that differs and none for a
\* field that is equal; the entries stand in the order of the column names.
C11_ColumnComparison ==
    Reported =>
        \A t \in CommonTables :
            /\ Range(ModifiedColumns(Section(Report, block_header(t)))) = DifferingColumns(t)
            /\ StrictlySorted(ModifiedColumns(Section(Report, block_header(t))))
            /\ \A c \in DifferingColumns(t) :
                  EntryLines(Section(Report, block_header(t)), c)
                    = FieldLines(tables[1][t].columns[c], tables[2][t].columns[c])

\* the two columns of y differ, id in type and extra, user_id in nullability and
\* default, and each has its entry with its two lines
C11_Witness ==
    /\ Reported
    /\ "y" \in CommonTables
    /\ ModifiedColumns(Section(Report, block_header("y"))) = <<"id", "user_id">>
    /\ EntryLines(Section(Report, block_header("y")), "id")
         = <<"    Type: int(11) -> bigint(20)", "    Extra: AUTO_INCREMENT -> ">>
    /\ EntryLines(Section(Report, block_header("y")), "user_id")
         = <<"    Nullable: NULL -> NOT NULL", "    Default: NULL -> 0">>

(***************************************************************************)
(* A piece that begins with FOREIGN KEY                                    *)
(***************************************************************************)

\* the columns and the constraints that the analysis of the lines cl gives, one after
\* the other, from none
RECURSIVE ParsedFrom(_)
ParsedFrom(cl) ==
    IF cl = <<>> THEN <<EmptyDict, <<>>>>
    ELSE parse_line(cl[Len(cl)], ParsedFrom(SubSeq(cl, 1, Len(cl) - 1))[1],
                    ParsedFrom(SubSeq(cl, 1, Len(cl) - 1))[2])

\* the piece p of F begins with FOREIGN KEY and nothing waits when it comes: the
\* pieces before it are the first n lines of cl, the last of them complete
AbsorbingAt(F, cl, p, n) ==
    /\ startswith(F[p], "FOREIGN KEY")
    /\ Segments(SubSeq(F, 1, p - 1), SubSeq(cl, 1, n))
    /\ n > 0 => is_line_complete(cl[n])

\* C12: when a piece of a body begins with FOREIGN KEY and nothing waits, nothing is
\* complete any more: that piece and all the pieces after it wait, joined, and are
\* together the last cleaned line, which is no column and no constraint; the columns
\* and constraints of the Table are those of the lines before it.
C12_ForeignKeyAbsorbs ==
    /\ pc = "clean" =>
          \A p \in 1..Len(Fragments(SubSeq(lines, 1, line_no - 1))), n \in 0..Len(cleaned_lines) :
              AbsorbingAt(Fragments(SubSeq(lines, 1, line_no - 1)), cleaned_lines, p, n) =>
                  /\ Len(cleaned_lines) = n
                  /\ current_line = Joined(Fragments(SubSeq(lines, 1, line_no - 1)), p,
                                           Len(Fragments(SubSeq(lines, 1, line_no - 1))))
                  /\ ~is_line_complete(current_line)
    /\ pc # "clean" =>
          \A p \in 1..Len(Fragments(lines)), n \in 0..Len(cleaned_lines) :
              AbsorbingAt(Fragments(lines), cleaned_lines, p, n) =>
                  /\ Len(cleaned_lines) = n + 1
                  /\ cleaned_lines[n + 1] = Joined(Fragments(lines), p, Len(Fragments(lines)))
                  /\ cleaned_no > n =>
                        /\ columns = ParsedFrom(SubSeq(cleaned_lines, 1, n))[1]
                        /\ constraints = ParsedFrom(SubSeq(cleaned_lines, 1, n))[2]
                  /\ "t" \in DOMAIN tables[1] =>
                        /\ tables[1]["t"].columns = ParsedFrom(SubSeq(cleaned_lines, 1, n))[1]
                        /\ tables[1]["t"].constraints = ParsedFrom(SubSeq(cleaned_lines, 1, n))[2]

\* a body of a FOREIGN KEY clause and a column after it: the two are one line, and the
\* Table stored has no column and no constraint
C12_Witness ==
    /\ "t" \in DOMAIN tables[1]
    /\ lines = <<"FOREIGN KEY (~a~) REFERENCES ~u~ (~id~)", "~id~ int(11) NOT NULL AUTO_INCREMENT">>
    /\ cleaned_lines
         = <<"FOREIGN KEY (~a~) REFERENCES ~u~ (~id~), ~id~ int(11) NOT NULL AUTO_INCREMENT">>
    /\ tables[1]["t"].columns = EmptyDict
    /\ tables[1]["t"].constraints = <<>>

(***************************************************************************)
(* What a foreign key references                                           *)
(***************************************************************************)

\* a constraint with what it references replaced: a foreign key references the table
\* "_" and no column
SameTarget(c) ==
    IF c.constraint_type = "FOREIGN KEY"
    THEN [c EXCEPT !.referenced_table = Some("_"), !.referenced_columns = Some(<<>>)]
    ELSE c

\* a table, and a structure, with what the foreign keys reference replaced
TableSameTarget(table) ==
    [table EXCEPT !.constraints = [k \in 1..Len(table.constraints) |->
                                      SameTarget(table.constraints[k])]]
SameTargets(ts) == [t \in DOMAIN ts |-> TableSameTarget(ts[t])]

\* a line of the report without what follows REFERENCES
BeforeReferences(line) ==
    IF find(line, " REFERENCES ", 1) # 0
    THEN SubSeq(line, 1, find(line, " REFERENCES ", 1) - 1) ELSE line

\* the lines of a report, each without what follows REFERENCES
WithoutReferences(report) == [k \in 1..Len(report) |-> BeforeReferences(report[k])]

\* the report of the two structures with what the foreign keys reference replaced
SameTargetsReport == split(compare(SameTargets(tables[1]), SameTargets(tables[2])), "\n")

\* the line of the report for a foreign key removed ("-") or added ("+")
ForeignKeyLine(sign, c) ==
    "    " \o sign \o " FOREIGN KEY " \o c.name \o " (" \o join(", ", c.columns)
        \o ") REFERENCES " \o c.referenced_table[1]
        \o " (" \o join(", ", c.referenced_columns[1]) \o ")"

\* each foreign key line of the block under the title is the line of a foreign key of
\* the table, with what that key references
RendersForeignKeys(block, title, sign, table) ==
    \A l \in Range(ConstraintLines(block, title, "    " \o sign \o " ")) :
        KeyOfLine(l)[1] = "FOREIGN KEY" =>
            \E k \in 1..Len(table.constraints) :
                /\ table.constraints[k].constraint_type = "FOREIGN KEY"
                /\ l = ForeignKeyLine(sign, table.constraints[k])

\* C13: what a foreign key references is not compared: two structures that differ in
\* nothing else give the sentence that nothing differs, a table of both that differs
\* in nothing else has no block, and the report is, apart from the text after
\* REFERENCES, the report of the structures with every foreign key referencing the
\* same; what a key references shows only in the line of a foreign key reported as
\* removed or added.
C13_TargetNotCompared ==
    Reported =>
        /\ SameTargets(tables[1]) = SameTargets(tables[2]) => stdout = Some(NoDifference)
        /\ \A t \in CommonTables :
              /\ TableSameTarget(tables[1][t]) = TableSameTarget(tables[2][t])
                   => ~in_list(block_header(t), Report)
              /\ RendersForeignKeys(Section(Report, block_header(t)),
                                    "  Contraintes supprimées:", "-", tables[1][t])
              /\ RendersForeignKeys(Section(Report, block_header(t)),
                                    "  Contraintes ajoutées:", "+", tables[2][t])
        /\ WithoutReferences(Report) = WithoutReferences(SameTargetsReport)

\* the foreign key of y references users (id) in the first dump and accounts (uid) in
\* the second, nothing else differs, and the report is that nothing differs
C13_Witness ==
    /\ Reported
    /\ "y" \in CommonTables
    /\ Len(tables[1]["y"].constraints) = 2
    /\ Len(tables[2]["y"].constraints) = 2
    /\ tables[1]["y"].constraints[2].referenced_table = Some("users")
    /\ tables[2]["y"].constraints[2].referenced_table = Some("accounts")
    /\ tables[2]["y"].constraints[2].referenced_columns = Some(<<"uid">>)
    /\ tables[1] # tables[2]
    /\ SameTargets(tables[1]) = SameTargets(tables[2])
    /\ stdout = Some(NoDifference)

=============================================================================
